---------------------------- MODULE Spec2Model ----------------------------
(***************************************************************************)
(* Model of start_server.py, the launcher of the shopping cart MCP server. *)
(*                                                                         *)
(* The launcher is a straight-line script.  Its state is the process       *)
(* environment map, the process working directory, the launcher's own      *)
(* module globals (__name__, __file__, script_dir, main_module) and the    *)
(* position of the interpreter in the file.  One action models one         *)
(* statement of the file; a statement that can raise has a second action   *)
(* for the raising outcome, after which the interpreter stops (there is no *)
(* try/except anywhere in the file).                                       *)
(*                                                                         *)
(* The package shopping_cart_python is not part of the source.  Its        *)
(* top-level code is modelled only through what the launcher observes of   *)
(* it: whether it raises, and what __name__ the loaded module carries      *)
(* afterwards.                                                             *)
(***************************************************************************)
EXTENDS Naturals, Sequences, FiniteSets

VARIABLES
    pc,          \* line of start_server.py about to run, or "done" / "failed"
    environ,     \* os.environ: [data |-> the map, puts |-> the writes made to it]
    cwd,         \* the process's current working directory (absolute)
    name,        \* the launcher's __name__
    file,        \* the launcher's __file__
    script_dir,  \* the launcher's global script_dir (line 15)
    main_module, \* the launcher's global main_module (line 19)
    trace,       \* the launcher steps begun so far, in order
    targetEffect,\* what the target's top-level code did to its __name__, or "none"
    targetRuns,  \* times the top-level code of shopping_cart_python/main.py was started
    failedAt,    \* the step whose exception ended the run, or "none"
    launcherDir, \* the directory that really contains start_server.py
    env0,        \* the environment map the process was started with
    cwd0         \* the working directory the process was started in

vars == <<pc, environ, cwd, name, file, script_dir, main_module, trace,
          targetEffect, targetRuns, failedAt, launcherDir, env0, cwd0>>

----------------------------------------------------------------------------
(* Bounds and value sets                                                   *)

MaxDepth == 2

DirNames == {"srv", "app"}

Up == ".."

ScriptName == "start_server.py"

AllowedHostsKey == "STARLETTE_ALLOWED_HOSTS"

AllowedHostsDefault == "*"

OtherKey == "PORT"

EnvKeys == {AllowedHostsKey, OtherKey}

EnvValues == {"", "*", "example.com"}

MainName == "__main__"

ImportedName == "shopping_cart_python.main"

LauncherNames == {MainName, "start_server"}

\* absolute directories of depth at most MaxDepth
Dirs == UNION {[1..k -> DirNames] : k \in 0..MaxDepth}

\* every environment map over EnvKeys: each key absent or bound to a string
EnvMaps == UNION {[S -> EnvValues] : S \in SUBSET EnvKeys}

----------------------------------------------------------------------------
(* os.environ                                                              *)

contains(e, k) == k \in DOMAIN e.data

setitem(e, k, v) ==
    [data |-> [x \in (DOMAIN e.data) \cup {k} |-> IF x = k THEN v ELSE e.data[x]],
     puts |-> Append(e.puts, <<k, v>>)]

setdefault_overwrite(e, k, v) == setitem(e, k, v)

setdefault_falsy(e, k, v) ==
    IF contains(e, k) /\ e.data[k] # "" THEN e ELSE setitem(e, k, v)

setdefault_otherkey(e, k, v) ==
    IF contains(e, k) THEN e ELSE setitem(setitem(e, k, v), OtherKey, v)

\* MutableMapping.setdefault, as os.environ inherits it
setdefault(e, k, v) == IF contains(e, k) THEN e ELSE setitem(e, k, v)

----------------------------------------------------------------------------
(* os.path                                                                 *)

\* a path is [abs |-> whether it starts at the root, parts |-> its components]

isabs(p) == p.abs

join(dir, p) == IF isabs(p) THEN p ELSE [abs |-> TRUE, parts |-> dir \o p.parts]

RECURSIVE collapse(_, _)
collapse(done, rest) ==
    IF rest = <<>> THEN done
    ELSE IF Head(rest) = Up
         THEN collapse(IF done = <<>> THEN <<>> ELSE SubSeq(done, 1, Len(done) - 1),
                       Tail(rest))
         ELSE collapse(Append(done, Head(rest)), Tail(rest))

\* normpath of an absolute path: ".." removes the component before it
normpath(p) == [abs |-> p.abs, parts |-> collapse(<<>>, p.parts)]

abspath_nojoin(p, wd) == normpath([abs |-> TRUE, parts |-> p.parts])

abspath(p, wd) == normpath(join(wd, p))

dirname(p) == [abs |-> p.abs, parts |-> SubSeq(p.parts, 1, Len(p.parts) - 1)]

\* the components leading from directory `from` to directory `to`
RECURSIVE common(_, _)
common(a, b) ==
    IF a = <<>> \/ b = <<>> \/ Head(a) # Head(b) THEN 0
    ELSE 1 + common(Tail(a), Tail(b))

relparts(to, from) ==
    LET c == common(to, from)
    IN  [i \in 1..(Len(from) - c) |-> Up] \o SubSeq(to, c + 1, Len(to))

\* the values __file__ can have for a launcher in directory d started from wd:
\* the absolute path of the script, or the path given on the command line
FileValues(d, wd) ==
    { [abs |-> TRUE,  parts |-> Append(d, ScriptName)],
      [abs |-> FALSE, parts |-> Append(relparts(d, wd), ScriptName)] }

----------------------------------------------------------------------------
(* Module objects                                                          *)

Unbound == [bound |-> FALSE, attrs |-> <<>>]

Module(attrs) == [bound |-> TRUE, attrs |-> attrs]

hasattr(m, a) == a \in DOMAIN m.attrs

\* what the target's top-level code may leave in its own __name__
TargetEffects == {"keep", "rebind_main", "delete"}

ModuleNameOnImport_entry == MainName

\* the __name__ the import system gives the module of `import shopping_cart_python.main`
ModuleNameOnImport == ImportedName

LoadedModule(effect) ==
    CASE effect = "keep"        -> Module([a \in {"__name__"} |-> ModuleNameOnImport])
      [] effect = "rebind_main" -> Module([a \in {"__name__"} |-> MainName])
      [] effect = "delete"      -> Module([a \in {} |-> ""])

MainGuard_always(n) == TRUE

\* line 13: if __name__ == "__main__"
MainGuard(n) == n = MainName

ReexecGuard_hasattr(m) == hasattr(m, "__name__")

\* line 22: hasattr(main_module, '__name__') and main_module.__name__ == '__main__'
ReexecGuard(m) == hasattr(m, "__name__") /\ m.attrs["__name__"] = MainName

----------------------------------------------------------------------------
(* Initial states                                                          *)

Init ==
    /\ pc = "l10"
    /\ env0 \in EnvMaps
    /\ environ = [data |-> env0, puts |-> <<>>]
    /\ cwd0 \in Dirs
    /\ cwd = cwd0
    /\ launcherDir \in Dirs
    /\ name \in LauncherNames
    /\ file \in FileValues(launcherDir, cwd0)
    /\ script_dir = [abs |-> FALSE, parts |-> <<>>]
    /\ main_module = Unbound
    /\ trace = <<>>
    /\ targetEffect = "none"
    /\ targetRuns = 0
    /\ failedAt = "none"

inputs == <<name, file, launcherDir, env0, cwd0>>

AfterLine_importFirst(l) ==
    CASE l = "l10" -> "l13"
      [] l = "l13" -> "l19"
      [] l = "l19" -> "l15"
      [] l = "l15" -> "l16"
      [] l = "l16" -> "l22"
      [] l = "l22" -> "l24"
      [] l = "l24" -> "done"

\* the statement that follows statement l when l completes and, for an if,
\* its condition is true
AfterLine(l) ==
    CASE l = "l10" -> "l13"
      [] l = "l13" -> "l15"
      [] l = "l15" -> "l16"
      [] l = "l16" -> "l19"
      [] l = "l19" -> "l22"
      [] l = "l22" -> "l24"
      [] l = "l24" -> "done"

Raise_swallow(step) ==
    /\ pc' = AfterLine(pc)
    /\ failedAt' = step

\* an exception raised by a statement: nothing in the file catches it, so the
\* interpreter prints it and exits
Raise(step) ==
    /\ pc' = "failed"
    /\ failedAt' = step

----------------------------------------------------------------------------
(* The statements of start_server.py                                       *)

\* line 10: os.environ.setdefault("STARLETTE_ALLOWED_HOSTS", "*")
ConfigureEnvironment ==
    /\ pc = "l10"
    /\ environ' = setdefault(environ, AllowedHostsKey, AllowedHostsDefault)
    /\ trace' = Append(trace, "setdefault")
    /\ pc' = AfterLine(pc)
    /\ UNCHANGED <<targetEffect, cwd, script_dir, main_module, targetRuns,
                   failedAt, inputs>>

\* line 13, condition true: enter the block
EnterMain ==
    /\ pc = "l13"
    /\ MainGuard(name)
    /\ pc' = AfterLine(pc)
    /\ UNCHANGED <<targetEffect, environ, cwd, script_dir, main_module,
                   trace, targetRuns, failedAt, inputs>>

\* line 13, condition false: the file ends
SkipMain ==
    /\ pc = "l13"
    /\ ~MainGuard(name)
    /\ pc' = "done"
    /\ UNCHANGED <<targetEffect, environ, cwd, script_dir, main_module,
                   trace, targetRuns, failedAt, inputs>>

\* line 15: script_dir = os.path.dirname(os.path.abspath(__file__))
ResolveScriptDir ==
    /\ pc = "l15"
    /\ script_dir' = dirname(abspath(file, cwd))
    /\ trace' = Append(trace, "chdir")
    /\ pc' = AfterLine(pc)
    /\ UNCHANGED <<targetEffect, environ, cwd, main_module, targetRuns,
                   failedAt, inputs>>

\* line 15 raising: abspath of a relative __file__ calls os.getcwd(), which
\* raises when the working directory no longer exists
ResolveScriptDirFail ==
    /\ pc = "l15"
    /\ ~isabs(file)
    /\ trace' = Append(trace, "chdir")
    /\ Raise("chdir")
    /\ UNCHANGED <<targetEffect, environ, cwd, script_dir, main_module,
                   targetRuns, inputs>>

chdir_noop(wd, p) == wd

\* os.chdir(p) for an absolute p: the working directory becomes p
chdir(wd, p) == join(wd, p).parts

\* line 16: os.chdir(script_dir)
ChangeDirectory ==
    /\ pc = "l16"
    /\ cwd' = chdir(cwd, script_dir)
    /\ pc' = AfterLine(pc)
    /\ UNCHANGED <<targetEffect, environ, script_dir, main_module, trace,
                   targetRuns, failedAt, inputs>>

\* line 16 raising: the directory is not accessible
ChangeDirectoryFail ==
    /\ pc = "l16"
    /\ Raise("chdir")
    /\ UNCHANGED <<targetEffect, environ, cwd, script_dir, main_module,
                   trace, targetRuns, inputs>>

\* line 19: import shopping_cart_python.main as main_module
\* the target's top-level code runs once and the module is bound
ImportTarget ==
    /\ pc = "l19"
    /\ \E effect \in TargetEffects :
          /\ targetEffect' = effect
          /\ main_module' = LoadedModule(effect)
    /\ targetRuns' = targetRuns + 1
    /\ trace' = Append(trace, "import")
    /\ pc' = AfterLine(pc)
    /\ UNCHANGED <<environ, cwd, script_dir, failedAt, inputs>>

\* line 19 raising: the module is missing or does not compile (its code never
\* starts), or its top-level code raises (it started)
ImportTargetFail ==
    /\ pc = "l19"
    /\ \E started \in {0, 1} : targetRuns' = targetRuns + started
    /\ trace' = Append(trace, "import")
    /\ Raise("import")
    /\ UNCHANGED <<targetEffect, environ, cwd, script_dir, main_module,
                   inputs>>

\* line 22, condition true: go on to line 24
EnterReexec ==
    /\ pc = "l22"
    /\ ReexecGuard(main_module)
    /\ pc' = AfterLine(pc)
    /\ UNCHANGED <<targetEffect, environ, cwd, script_dir, main_module,
                   trace, targetRuns, failedAt, inputs>>

\* line 22, condition false: the file ends
SkipReexec ==
    /\ pc = "l22"
    /\ ~ReexecGuard(main_module)
    /\ pc' = "done"
    /\ UNCHANGED <<targetEffect, environ, cwd, script_dir, main_module,
                   trace, targetRuns, failedAt, inputs>>

\* line 24: exec(open('shopping_cart_python/main.py').read())
\* the file's top-level statements run to their end in the launcher's globals
Reexecute ==
    /\ pc = "l24"
    /\ targetRuns' = targetRuns + 1
    /\ trace' = Append(trace, "exec")
    /\ pc' = AfterLine(pc)
    /\ UNCHANGED <<targetEffect, environ, cwd, script_dir, main_module,
                   failedAt, inputs>>

\* line 24 raising: open() or compilation fails (the code never starts), or the
\* executed statements raise (the code started)
ReexecuteFail ==
    /\ pc = "l24"
    /\ \E started \in {0, 1} : targetRuns' = targetRuns + started
    /\ trace' = Append(trace, "exec")
    /\ Raise("exec")
    /\ UNCHANGED <<targetEffect, environ, cwd, script_dir, main_module,
                   inputs>>

Next ==
    \/ ConfigureEnvironment
    \/ EnterMain
    \/ SkipMain
    \/ ResolveScriptDir
    \/ ResolveScriptDirFail
    \/ ChangeDirectory
    \/ ChangeDirectoryFail
    \/ ImportTarget
    \/ ImportTargetFail
    \/ EnterReexec
    \/ SkipReexec
    \/ Reexecute
    \/ ReexecuteFail

Spec == Init /\ [][Next]_vars

----------------------------------------------------------------------------
(* Properties                                                              *)

InTrace(step) == \E i \in 1..Len(trace) : trace[i] = step

Terminal == pc \in {"done", "failed"}

WasSet == AllowedHostsKey \in DOMAIN env0

\* the environment map the launcher is meant to leave behind
Configured ==
    IF WasSet THEN env0
    ELSE [x \in (DOMAIN env0) \cup {AllowedHostsKey} |->
             IF x = AllowedHostsKey THEN "*" ELSE env0[x]]

StepOrder == <<"setdefault", "chdir", "import", "exec">>

IsPrefix(s, t) == Len(s) <= Len(t) /\ \A i \in 1..Len(s) : s[i] = t[i]

ReachedImport == pc = "l19" \/ InTrace("import")

\* C1: a STARLETTE_ALLOWED_HOSTS that was set when the process started, to any
\* value (the empty string included), has that same value in every state of
\* the launcher's run.
C1_NonOverwrite ==
    WasSet =>
        /\ AllowedHostsKey \in DOMAIN environ.data
        /\ environ.data[AllowedHostsKey] = env0[AllowedHostsKey]

C1_Witness ==
    /\ WasSet
    /\ env0[AllowedHostsKey] = ""
    /\ pc = "done"
    /\ InTrace("import")
    /\ environ.data[AllowedHostsKey] = ""

\* C2: when STARLETTE_ALLOWED_HOSTS was absent, once line 10 has run the
\* variable is present and equals "*", and the map differs from the initial
\* one in that key only.
C2_DefaultApplied ==
    (~WasSet /\ pc # "l10") =>
        /\ AllowedHostsKey \in DOMAIN environ.data
        /\ environ.data[AllowedHostsKey] = "*"
        /\ DOMAIN environ.data = (DOMAIN env0) \cup {AllowedHostsKey}
        /\ \A k \in DOMAIN env0 : environ.data[k] = env0[k]

C2_Witness ==
    /\ ~WasSet
    /\ OtherKey \in DOMAIN env0
    /\ pc = "l13"
    /\ environ.data[AllowedHostsKey] = "*"

\* C3: in every run that reaches the import of the target module, the working
\* directory is the directory that contains the launcher file, whatever the
\* directory the process was started in.
C3_WorkingDirectory == ReachedImport => cwd = launcherDir

C3_Witness ==
    /\ ReachedImport
    /\ ~isabs(file)
    /\ cwd0 # launcherDir
    /\ Len(cwd0) > 0
    /\ cwd = launcherDir

\* C4: when the import of the target module raised, the run has ended in the
\* failed state with the environment as configured (the value that was set, or
\* "*") and the working directory still the launcher's directory.
C4_SideEffectsSurvive ==
    failedAt = "import" =>
        /\ pc = "failed"
        /\ environ.data = Configured
        /\ cwd = launcherDir

C4_Witness ==
    /\ failedAt = "import"
    /\ ~WasSet
    /\ cwd0 # launcherDir
    /\ environ.data[AllowedHostsKey] = "*"
    /\ cwd = launcherDir

NameIsMain(m) ==
    /\ "__name__" \in DOMAIN m.attrs
    /\ m.attrs["__name__"] = "__main__"

\* C5: once the target module is loaded, the re-execution step (line 24) is
\* taken if and only if the loaded module's __name__ is "__main__"; when it is
\* not, the launcher finishes without line 24, the target's code having run
\* once.
C5_ConditionalReexec ==
    main_module.bound =>
        /\ (pc = "l24" \/ InTrace("exec")) => NameIsMain(main_module)
        /\ (Terminal /\ NameIsMain(main_module)) => InTrace("exec")
        /\ ~NameIsMain(main_module) => (pc \in {"l22", "done"} /\ targetRuns = 1)

C5_Witness ==
    /\ main_module.bound
    /\ NameIsMain(main_module)
    /\ pc = "done"
    /\ InTrace("exec")
    /\ targetRuns = 2

\* C6: the steps begun form a prefix of: set environment default, change
\* working directory, import target, re-execute; a run as entry point that
\* finishes has done at least the first three; and whenever top-level code of
\* the target has started, the variable is configured and the working
\* directory changed.
C6_StepOrdering ==
    /\ IsPrefix(trace, StepOrder)
    /\ (pc = "done" /\ name = "__main__") => Len(trace) >= 3
    /\ (targetRuns > 0 \/ InTrace("import")) =>
          /\ SubSeq(trace, 1, 2) = <<"setdefault", "chdir">>
          /\ environ.data = Configured
          /\ cwd = launcherDir

C6_Witness ==
    /\ trace = StepOrder
    /\ pc = "done"
    /\ cwd0 # launcherDir
    /\ ~WasSet

C7_Writes ==
    /\ Len(environ.puts) <= 1
    /\ WasSet => environ.puts = <<>>
    /\ \A i \in 1..Len(environ.puts) :
          environ.puts[i] = <<AllowedHostsKey, "*">>

\* C7: the launcher writes STARLETTE_ALLOWED_HOSTS at most once, not at all
\* when it was already set, and no step after line 10 changes the environment.
C7_SingleWrite ==
    /\ []C7_Writes
    /\ [][pc # "l10" => environ' = environ]_vars

C7_Witness ==
    /\ Terminal
    /\ InTrace("import")
    /\ WasSet
    /\ environ.puts = <<>>

C8_FailStop ==
    /\ \A i, j \in 1..Len(trace) : trace[i] = trace[j] => i = j
    /\ (pc = "failed") <=> (failedAt # "none")
    /\ failedAt # "none" => trace[Len(trace)] = failedAt
    /\ failedAt = "chdir" =>
          (~InTrace("import") /\ ~main_module.bound /\ targetRuns = 0)
    /\ failedAt = "import" => (~InTrace("exec") /\ ~main_module.bound)

\* C8: a step that raises ends the run: nothing changes after the failure, no
\* step is begun twice, the step that failed is the last one begun, a failed
\* directory change means the target is never imported, and a failed import
\* means the target file is never re-executed.
C8_FailStopOneShot ==
    /\ []C8_FailStop
    /\ [][pc # "failed"]_vars

C8_Witness ==
    /\ pc = "failed"
    /\ failedAt = "chdir"
    /\ trace = <<"setdefault", "chdir">>

\* C9: unless the target's top-level code rebinds its __name__ to "__main__",
\* line 24 is never reached, and a launch that finishes has run the target's
\* top-level statements exactly once.
C9_ReexecUnreachable ==
    (main_module.bound /\ targetEffect # "rebind_main") =>
        /\ pc # "l24"
        /\ ~InTrace("exec")
        /\ ~NameIsMain(main_module)
        /\ Terminal => (pc = "done" /\ targetRuns = 1)

C9_Witness ==
    /\ targetEffect = "keep"
    /\ pc = "done"
    /\ targetRuns = 1
    /\ main_module.attrs["__name__"] = "shopping_cart_python.main"

\* C10: loaded under a name other than "__main__", the launcher only applies
\* the environment default: the working directory stays where it was, the
\* target is not imported and nothing is re-executed.
C10_NonEntryPoint ==
    name # "__main__" =>
        /\ cwd = cwd0
        /\ ~main_module.bound
        /\ targetRuns = 0
        /\ IsPrefix(trace, <<"setdefault">>)
        /\ pc \in {"l10", "l13", "done"}
        /\ pc # "l10" => environ.data = Configured

C10_Witness ==
    /\ name # "__main__"
    /\ pc = "done"
    /\ ~WasSet
    /\ cwd0 # launcherDir
    /\ environ.data[AllowedHostsKey] = "*"

=============================================================================
